---- MODULE Spec2Model ----
(***************************************************************************)
(* Streaming extractors for Gaussian log files (LinkParser and its         *)
(* subclasses in src/src/interfaces/g98/file_parsers.py).                  *)
(*                                                                         *)
(* A line of the log is a sequence of one-character strings, so that the   *)
(* fixed-column slices, str.split, int, float and the regular expressions  *)
(* of the source act on the text itself.  A float is kept as an exact      *)
(* decimal <<m, e>> (m * 10^e, m without trailing zeros); binary rounding  *)
(* of 64-bit floats is not modelled.                                       *)
(***************************************************************************)
EXTENDS Integers, Sequences, FiniteSets, TLC

VARIABLES self, fed, inl, file, others

vars == <<self, fed, inl, file, others>>

(***************************************************************************)
(* Bounds of the model.                                                    *)
(***************************************************************************)
\* Longest stream of lines fed to one parser between two resets.
MaxLines == 5
\* Largest dimension of a force-constant matrix printed in a generated log.
MaxN == 4
\* Largest number of columns per printed block of that matrix.
MaxW == 3

(***************************************************************************)
(* Python built-ins used by the parsers.                                   *)
(***************************************************************************)
Min(a, b) == IF a < b THEN a ELSE b

Max(a, b) == IF a > b THEN a ELSE b

\* Characters str.split() and the regex class \s treat as white space.
IsSpace(c) == c \in {" ", "\t", "\n", "\r", "\f"}

IsDigit(c) == c \in {"0", "1", "2", "3", "4", "5", "6", "7", "8", "9"}

DigitVal(c) ==
  CASE c = "0" -> 0 [] c = "1" -> 1 [] c = "2" -> 2 [] c = "3" -> 3
    [] c = "4" -> 4 [] c = "5" -> 5 [] c = "6" -> 6 [] c = "7" -> 7
    [] c = "8" -> 8 [] c = "9" -> 9

DigitChar(d) ==
  CASE d = 0 -> "0" [] d = 1 -> "1" [] d = 2 -> "2" [] d = 3 -> "3"
    [] d = 4 -> "4" [] d = 5 -> "5" [] d = 6 -> "6" [] d = 7 -> "7"
    [] d = 8 -> "8" [] d = 9 -> "9"

\* A slice bound i of a sequence of length n, as Python normalises it.
PyIndex(i, n) == IF i < 0 THEN Max(i + n, 0) ELSE Min(i, n)

\* s[a:b] of Python (0-based, b exclusive, negative bounds count from the end).
Slice(s, a, b) ==
  LET lo == PyIndex(a, Len(s))
      hi == PyIndex(b, Len(s))
  IN IF lo < hi THEN SubSeq(s, lo + 1, hi) ELSE <<>>

RECURSIVE SplitFrom(_, _, _, _)
SplitFrom(s, i, cur, acc) ==
  IF i > Len(s)
  THEN IF cur = <<>> THEN acc ELSE Append(acc, cur)
  ELSE IF IsSpace(s[i])
       THEN SplitFrom(s, i + 1, <<>>, IF cur = <<>> THEN acc ELSE Append(acc, cur))
       ELSE SplitFrom(s, i + 1, Append(cur, s[i]), acc)

\* str.split(): the maximal runs of non-space characters, in order.
split(s) == SplitFrom(s, 1, <<>>, <<>>)

\* word.find(c) >= 0
find_ge0(word, c) == \E i \in 1..Len(word) : word[i] = c

\* word.replace(a, b) for single characters a and b.
replace(word, a, b) == [i \in 1..Len(word) |-> IF word[i] = a THEN b ELSE word[i]]

AllDigits(s) == \A i \in 1..Len(s) : IsDigit(s[i])

RECURSIVE DigitsVal(_)
DigitsVal(s) == IF s = <<>> THEN 0 ELSE 10 * DigitsVal(SubSeq(s, 1, Len(s) - 1)) + DigitVal(s[Len(s)])

IsSign(c) == c \in {"+", "-"}

Unsigned(s) == IF s # <<>> /\ IsSign(s[1]) THEN Tail(s) ELSE s

SignOf(s) == IF s # <<>> /\ s[1] = "-" THEN -1 ELSE 1

\* int(word): an optional sign and decimal digits, anything else is a ValueError.
int(word) ==
  LET d == Unsigned(word)
  IN IF d # <<>> /\ AllDigits(d)
     THEN [ok |-> TRUE, v |-> SignOf(word) * DigitsVal(d)]
     ELSE [ok |-> FALSE, v |-> 0]

RECURSIVE Norm(_, _)
\* The decimal m * 10^e with the trailing zeros of m moved into e.
Norm(m, e) ==
  IF m = 0 THEN <<0, 0>>
  ELSE IF m % 10 = 0 THEN Norm(m \div 10, e + 1) ELSE <<m, e>>

\* Index of the first character of s in set cs, or Len(s) + 1.
FirstIn(s, cs) ==
  IF \E i \in 1..Len(s) : s[i] \in cs
  THEN CHOOSE i \in 1..Len(s) : s[i] \in cs /\ \A j \in 1..(i - 1) : s[j] \notin cs
  ELSE Len(s) + 1

\* float(word): [sign] digits [. digits] [e [sign] digits], with at least one
\* digit in the mantissa; anything else is a ValueError.  ("inf" and "nan",
\* which float() also accepts, occur in no line of the model.)
float(word) ==
  LET body == Unsigned(word)
      ep   == FirstIn(body, {"e", "E"})
      mant == SubSeq(body, 1, ep - 1)
      hasE == ep <= Len(body)
      expo == SubSeq(body, ep + 1, Len(body))
      dp   == FirstIn(mant, {"."})
      ip   == SubSeq(mant, 1, dp - 1)
      fp   == SubSeq(mant, dp + 1, Len(mant))
      okM  == AllDigits(ip) /\ AllDigits(fp) /\ Len(ip) + Len(fp) >= 1
      okE  == ~hasE \/ (Unsigned(expo) # <<>> /\ AllDigits(Unsigned(expo)))
      ev   == IF hasE THEN SignOf(expo) * DigitsVal(Unsigned(expo)) ELSE 0
  IN IF okM /\ okE
     THEN [ok |-> TRUE, v |-> Norm(SignOf(word) * DigitsVal(ip \o fp), ev - Len(fp))]
     ELSE [ok |-> FALSE, v |-> <<0, 0>>]

(***************************************************************************)
(* Regular expressions (module re).  A pattern is a sequence of elements   *)
(* [t, c, plus, g]: t is what the element matches ("lit" for the literal   *)
(* text c, "any" for ., "s" for \s, "S" for \S, "d" for \d), plus says     *)
(* whether a character class is repeated with +, and g names the group the *)
(* element forms ("" for none).                                            *)
(***************************************************************************)
Lit(cs) == <<[t |-> "lit", c |-> cs, plus |-> FALSE, g |-> ""]>>

AnyChar == <<[t |-> "any", c |-> <<>>, plus |-> FALSE, g |-> ""]>>

Spaces == <<[t |-> "s", c |-> <<>>, plus |-> TRUE, g |-> ""]>>

NonSpaces == <<[t |-> "S", c |-> <<>>, plus |-> TRUE, g |-> ""]>>

DigitsRe == <<[t |-> "d", c |-> <<>>, plus |-> TRUE, g |-> ""]>>

Group(name) == <<[t |-> "S", c |-> <<>>, plus |-> TRUE, g |-> name]>>

ClassMatches(e, ch) ==
  CASE e.t = "any" -> ch # "\n"
    [] e.t = "s"   -> IsSpace(ch)
    [] e.t = "S"   -> ~IsSpace(ch)
    [] e.t = "d"   -> IsDigit(ch)

RECURSIVE RunLen(_, _, _)
\* Number of consecutive characters of s from index j on in the class of e.
RunLen(e, s, j) ==
  IF j <= Len(s) /\ ClassMatches(e, s[j]) THEN 1 + RunLen(e, s, j + 1) ELSE 0

\* The numbers of characters element e may take from index j of s on.
Takes(e, s, j) ==
  IF e.t = "lit"
  THEN IF j + Len(e.c) - 1 <= Len(s) /\ SubSeq(s, j, j + Len(e.c) - 1) = e.c
       THEN {Len(e.c)} ELSE {}
  ELSE IF e.plus THEN 1..RunLen(e, s, j) ELSE 1..Min(RunLen(e, s, j), 1)

\* The element of a non-empty set of tuples with the largest first component.
Longest(all) == CHOOSE m \in all : \A o \in all : o[1] <= m[1]

RECURSIVE MatchHere(_, _, _, _)
\* The match of pat[k..] against s from index j on that the backtracking matcher
\* finds first (a + takes as much as it can): {} when there is none, else the one
\* tuple of the indices just after each element.
MatchHere(pat, k, s, j) ==
  IF k > Len(pat) THEN {<<>>}
  ELSE LET all == UNION {{<<j + n>> \o x : x \in MatchHere(pat, k + 1, s, j + n)} :
                           n \in Takes(pat[k], s, j)}
       IN IF all = {} THEN {} ELSE {Longest(all)}

\* pattern.search(s): the leftmost match, as [ok, g] with g the text of each group.
search(pat, s) ==
  LET starts == {i \in 1..(Len(s) + 1) : MatchHere(pat, 1, s, i) # {}}
  IN IF starts = {} THEN [ok |-> FALSE, g |-> <<>>]
     ELSE LET i0   == CHOOSE i \in starts : \A o \in starts : i <= o
              ends == CHOOSE m \in MatchHere(pat, 1, s, i0) : TRUE
              from(k) == IF k = 1 THEN i0 ELSE ends[k - 1]
              gs   == {k \in 1..Len(pat) : pat[k].g # ""}
          IN [ok |-> TRUE,
              g  |-> [n \in {pat[k].g : k \in gs} |->
                        LET k == CHOOSE q \in gs : pat[q].g = n
                        IN SubSeq(s, from(k), ends[k] - 1)]]

(***************************************************************************)
(* Decimal arithmetic on parsed floats, and pychem.units.from_angstrom.     *)
(***************************************************************************)
Zero == Norm(0, 0)

Mul(a, b) == Norm(a[1] * b[1], a[2] + b[2])

\* One angstrom in atomic units of length (bohr): 1.8897261.
angstrom == Norm(18897261, -7)

\* from_angstrom(x): a length in angstrom converted to the internal unit.
from_angstrom(x) == Mul(x, angstrom)

(***************************************************************************)
(* The lines of the logs fed to the parsers.  A line is named by a record  *)
(* [name, r, c, n]; Text gives its characters and Meta says what the line  *)
(* is in the log (which link's boundary it marks, what it reports), as the *)
(* program that wrote the log meant it.                                    *)
(***************************************************************************)
L(name) == [name |-> name, r |-> 0, c |-> 0, n |-> 0]

\* Row r of the force-constant matrix, columns c .. c+n-1.
Row(r, c, n) == [name |-> "fc_row", r |-> r, c |-> c, n |-> n]

\* The heading of a block of the force constant matrix: columns c .. c+n-1.
Header(c, n) == [name |-> "fc_header", r |-> 0, c |-> c, n |-> n]

LineText ==
  [ enter502  |-> <<" ","(","E","n","t","e","r"," ","/","g","9","8","/","l","5","0","2",".","e","x","e",")","\n">>,
    leave502  |-> <<" ","L","e","a","v","e"," ","L","i","n","k"," "," ","5","0","2"," ","a","t"," ","M","o","n"," ","M","a","r"," "," ","1","\n">>,
    leave502_scf |-> <<" ","L","e","a","v","e"," ","L","i","n","k"," "," ","5","0","2"," ","S","C","F"," ","D","o","n","e",":"," "," ","E","(","R","H","F",")"," ","="," "," ","-","1",".","5"," ","A",".","U",".","\n">>,
    enter716  |-> <<" ","(","E","n","t","e","r"," ","/","g","9","8","/","l","7","1","6",".","e","x","e",")","\n">>,
    leave716  |-> <<" ","L","e","a","v","e"," ","L","i","n","k"," "," ","7","1","6"," ","a","t"," ","M","o","n"," ","M","a","r"," "," ","1","\n">>,
    enter202  |-> <<" ","(","E","n","t","e","r"," ","/","g","9","8","/","l","2","0","2",".","e","x","e",")","\n">>,
    leave202  |-> <<" ","L","e","a","v","e"," ","L","i","n","k"," "," ","2","0","2"," ","a","t"," ","M","o","n"," ","M","a","r"," "," ","1","\n">>,
    enter101  |-> <<" ","(","E","n","t","e","r"," ","/","g","9","8","/","l","1","0","1",".","e","x","e",")","\n">>,
    leave101  |-> <<" ","L","e","a","v","e"," ","L","i","n","k"," "," ","1","0","1"," ","a","t"," ","M","o","n"," ","M","a","r"," "," ","1","\n">>,
    enter1101 |-> <<" ","(","E","n","t","e","r"," ","/","g","9","8","/","l","1","1","0","1",".","e","x","e",")","\n">>,
    leave1101 |-> <<" ","L","e","a","v","e"," ","L","i","n","k"," ","1","1","0","1"," ","a","t"," ","M","o","n"," ","M","a","r"," "," ","1","\n">>,
    scfA      |-> <<" ","S","C","F"," ","D","o","n","e",":"," "," ","E","(","R","H","F",")"," ","="," "," ","-","1",".","2","3","4","5","6","7"," "," "," "," "," ","A",".","U","."," ","a","f","t","e","r"," "," "," "," ","9"," ","c","y","c","l","e","s","\n">>,
    scfB      |-> <<" ","S","C","F"," ","D","o","n","e",":"," "," ","E","(","R","H","F",")"," ","="," "," ","-","1",".","3","0","0","0","0","0"," "," "," "," "," ","A",".","U","."," ","a","f","t","e","r"," "," "," "," ","7"," ","c","y","c","l","e","s","\n">>,
    input_orientation |-> <<" "," "," "," "," "," "," "," "," "," "," "," "," "," "," "," "," "," "," "," "," "," "," "," "," "," ","I","n","p","u","t"," ","o","r","i","e","n","t","a","t","i","o","n",":","\n">>,
    distance_matrix   |-> <<" "," "," "," "," "," "," "," "," "," "," "," "," "," "," "," "," "," "," "," ","D","i","s","t","a","n","c","e"," ","m","a","t","r","i","x"," ","(","a","n","g","s","t","r","o","m","s",")",":","\n">>,
    atomA     |-> <<" "," "," "," ","1"," "," "," "," "," "," "," "," "," "," ","8"," "," "," "," "," "," "," "," "," "," "," "," "," ","0"," "," "," "," "," "," "," "," ","0",".","5"," "," "," ","-","1",".","5"," "," "," "," ","0",".","2","5","\n">>,
    atomB     |-> <<" "," "," "," ","2"," "," "," "," "," "," "," "," "," "," ","1"," "," "," "," "," "," "," "," "," "," "," "," "," ","0"," "," "," "," "," "," "," "," ","0",".","0"," "," "," "," ","0",".","7","5"," "," "," ","-","0",".","5","\n">>,
    coord_head |-> <<" ","C","e","n","t","e","r"," "," "," "," "," ","A","t","o","m","i","c"," "," "," "," "," ","A","t","o","m","i","c"," "," "," "," "," "," "," "," "," "," "," "," "," "," ","C","o","o","r","d","i","n","a","t","e","s"," ","(","A","n","g","s","t","r","o","m","s",")","\n">>,
    fc_cartesian |-> <<" ","F","o","r","c","e"," ","c","o","n","s","t","a","n","t","s"," ","i","n"," ","C","a","r","t","e","s","i","a","n"," ","c","o","o","r","d","i","n","a","t","e","s",":","\n">>,
    fc_internal  |-> <<" ","F","o","r","c","e"," ","c","o","n","s","t","a","n","t","s"," ","i","n"," ","i","n","t","e","r","n","a","l"," ","c","o","o","r","d","i","n","a","t","e","s",":","\n">>,
    blank     |-> <<"\n">>,
    temperature    |-> <<" ","T","e","m","p","e","r","a","t","u","r","e"," "," "," ","2","9","8",".","1","5","0"," ","K","e","l","v","i","n","."," "," ","P","r","e","s","s","u","r","e"," "," "," ","1",".","0","0","0","0","0"," ","A","t","m",".","\n">>,
    molecular_mass |-> <<" ","M","o","l","e","c","u","l","a","r"," ","m","a","s","s",":"," "," "," "," ","1","8",".","0","1","0","5","6"," ","a","m","u",".","\n">>,
    atom_mass |-> <<" ","A","t","o","m"," "," ","1"," ","h","a","s"," ","a","t","o","m","i","c"," ","n","u","m","b","e","r"," "," ","8"," ","a","n","d"," ","m","a","s","s"," "," ","1","5",".","9","9","4","9","1","\n">>,
    low_freq  |-> <<" ","L","o","w"," ","f","r","e","q","u","e","n","c","i","e","s"," ","-","-","-"," "," "," ","-","0",".","5"," "," "," "," ","0",".","2","5"," "," "," ","1","2",".","5","\n">>,
    freq      |-> <<" ","F","r","e","q","u","e","n","c","i","e","s"," ","-","-"," "," ","1","6","2","5",".","5"," "," ","3","8","0","0",".","2","5","\n">>,
    red_mass  |-> <<" ","R","e","d","."," ","m","a","s","s","e","s"," ","-","-"," "," "," "," "," ","1",".","0","8","2","5","\n">> ]

M(kind, id, role, vals) == [kind |-> kind, id |-> id, role |-> role, vals |-> vals]

LineMeta ==
  [ enter502  |-> M("enter", <<"5","0","2">>, "text", <<>>),
    leave502  |-> M("leave", <<"5","0","2">>, "text", <<>>),
    leave502_scf |-> M("leave", <<"5","0","2">>, "scf", << <<-15, -1>> >>),
    enter716  |-> M("enter", <<"7","1","6">>, "text", <<>>),
    leave716  |-> M("leave", <<"7","1","6">>, "text", <<>>),
    enter202  |-> M("enter", <<"2","0","2">>, "text", <<>>),
    leave202  |-> M("leave", <<"2","0","2">>, "text", <<>>),
    enter101  |-> M("enter", <<"1","0","1">>, "text", <<>>),
    leave101  |-> M("leave", <<"1","0","1">>, "text", <<>>),
    enter1101 |-> M("enter", <<"1","1","0","1">>, "text", <<>>),
    leave1101 |-> M("leave", <<"1","1","0","1">>, "text", <<>>),
    scfA      |-> M("none", <<>>, "scf", << <<-1234567, -6>> >>),
    scfB      |-> M("none", <<>>, "scf", << <<-13, -1>> >>),
    input_orientation |-> M("none", <<>>, "input_orientation", <<>>),
    distance_matrix   |-> M("none", <<>>, "distance_matrix", <<>>),
    atomA     |-> M("none", <<>>, "atom", << <<5, -1>>, <<-15, -1>>, <<25, -2>> >>),
    atomB     |-> M("none", <<>>, "atom", << <<0, 0>>, <<75, -2>>, <<-5, -1>> >>),
    coord_head |-> M("none", <<>>, "text", <<>>),
    fc_cartesian |-> M("none", <<>>, "fc_cartesian", <<>>),
    fc_internal  |-> M("none", <<>>, "fc_internal", <<>>),
    blank     |-> M("none", <<>>, "text", <<>>),
    temperature    |-> M("none", <<>>, "temperature", <<>>),
    molecular_mass |-> M("none", <<>>, "molecular_mass", <<>>),
    atom_mass |-> M("none", <<>>, "atom_mass", << <<1599491, -5>> >>),
    low_freq  |-> M("none", <<>>, "low_freq", << <<-5, -1>>, <<25, -2>>, <<125, -1>> >>),
    freq      |-> M("none", <<>>, "freq", << <<16255, -1>>, <<380025, -2>> >>),
    red_mass  |-> M("none", <<>>, "text", <<>>) ]

\* The force constant between coordinates r and c of the molecule of the
\* generated logs, and the token that prints it (Fortran D exponent).
FC(r, c) == IF r = c THEN Norm(10 * r + c, -1) ELSE Norm(-(10 * r + c), -3)

FCToken(r, c) ==
  IF r = c
  THEN <<"0", ".", DigitChar(r), DigitChar(c), "D", "+", "0", "1">>
  ELSE <<"-", "0", ".", DigitChar(r), DigitChar(c), "D", "-", "0", "1">>

RECURSIVE FormatRowFrom(_, _, _)
FormatRowFrom(r, c, n) ==
  IF n = 0 THEN <<"\n">> ELSE <<" "," ">> \o FCToken(r, c) \o FormatRowFrom(r, c + 1, n - 1)

\* "      r  v  v ...": the row number and the values of columns c .. c+n-1.
FormatRow(r, c, n) == <<" "," "," "," "," "," ">> \o <<DigitChar(r)>> \o FormatRowFrom(r, c, n)

RECURSIVE FormatHeader(_, _)
\* "             c             c+1 ...": the column numbers of a block.
FormatHeader(c, n) ==
  IF n = 0 THEN <<"\n">> ELSE <<" "," "," "," "," "," "," "," "," "," "," "," "," ">> \o <<DigitChar(c)>> \o FormatHeader(c + 1, n - 1)

Text(l) ==
  CASE l.name = "fc_row"    -> FormatRow(l.r, l.c, l.n)
    [] l.name = "fc_header" -> FormatHeader(l.c, l.n)
    [] OTHER                -> LineText[l.name]

Meta(l) ==
  CASE l.name = "fc_row"    -> M("none", <<>>, "fc_row", [i \in 1..l.n |-> FC(l.r, l.c + i - 1)])
    [] l.name = "fc_header" -> M("none", <<>>, "fc_header", <<>>)
    [] OTHER                -> LineMeta[l.name]

(***************************************************************************)
(* The parser classes: the link each watches, its activator, deactivator   *)
(* and line pattern.                                                       *)
(***************************************************************************)
Classes ==
  {"EnergyParser", "CoordinatesParser", "HessianParser", "MassParser",
   "LowFrequenciesParser", "SelectedFrequenciesParser"}

\* The link argument of LinkParser.__init__ for each subclass.
link_of(cls) ==
  CASE cls = "EnergyParser"      -> <<"5","0","2">>
    [] cls = "CoordinatesParser" -> <<"2","0","2">>
    [] OTHER                     -> <<"7","1","6">>

HessianActivator == Lit(<<"F","o","r","c","e"," ","c","o","n","s","t","a","n","t","s"," ","i","n"," ","C","a","r","t","e","s","i","a","n"," ","c","o","o","r","d","i","n","a","t","e","s",":">>)

HessianDeactivator == Lit(<<"F","o","r","c","e"," ","c","o","n","s","t","a","n","t","s"," ","i","n"," ","i","n","t","e","r","n","a","l"," ","c","o","o","r","d","i","n","a","t","e","s",":">>)

MassActivator ==
  Lit(<<"T","e","m","p","e","r","a","t","u","r","e">>) \o Spaces \o NonSpaces \o Spaces \o Lit(<<"K","e","l","v","i","n">>) \o AnyChar
    \o Spaces \o Lit(<<"P","r","e","s","s","u","r","e">>) \o Spaces \o NonSpaces \o Spaces \o Lit(<<"A","t","m">>) \o AnyChar

MassDeactivator ==
  Lit(<<"M","o","l","e","c","u","l","a","r"," ","m","a","s","s",":">>) \o Spaces \o NonSpaces \o Spaces \o Lit(<<"a","m","u">>) \o AnyChar

MassRe ==
  Lit(<<"A","t","o","m">>) \o Spaces \o DigitsRe \o Spaces \o Lit(<<"h","a","s"," ","a","t","o","m","i","c"," ","n","u","m","b","e","r">>) \o Spaces
    \o DigitsRe \o Spaces \o Lit(<<"a","n","d"," ","m","a","s","s">>) \o Spaces \o Group("mass")

CoordinatesActivator == Lit(<<"I","n","p","u","t"," ","o","r","i","e","n","t","a","t","i","o","n",":">>)

\* The deactivator as a regular expression reads it when the parentheses are
\* left unescaped: a group, so the text without the parentheses.
CoordinatesDeactivator_unescaped == Lit(<<"D","i","s","t","a","n","c","e"," ","m","a","t","r","i","x"," ","a","n","g","s","t","r","o","m","s",":">>)

CoordinatesDeactivator == Lit(<<"D","i","s","t","a","n","c","e"," ","m","a","t","r","i","x"," ","(","a","n","g","s","t","r","o","m","s",")",":">>)

CoordinatesRe ==
  DigitsRe \o Spaces \o DigitsRe \o Spaces \o DigitsRe \o Spaces
    \o Group("x") \o Spaces \o Group("y") \o Spaces \o Group("z")

EnergyRe ==
  Lit(<<"S","C","F"," ","D","o","n","e",":">>) \o Spaces \o Lit(<<"E">>) \o NonSpaces \o Spaces \o Lit(<<"=">>) \o Spaces
    \o Group("energy") \o Spaces \o Lit(<<"A">>) \o AnyChar \o Lit(<<"U">>) \o AnyChar

LowFrequenciesPattern == <<" ","L","o","w"," ","f","r","e","q","u","e","n","c","i","e","s"," ","-","-","-">>

SelectedFrequenciesPattern == <<" ","F","r","e","q","u","e","n","c","i","e","s"," ","-","-">>

\* Whether the class passes an activator (and a deactivator) to MultiLineParser.
HasActivator(cls) == cls \in {"HessianParser", "MassParser", "CoordinatesParser"}

activator(cls) ==
  CASE cls = "HessianParser"     -> HessianActivator
    [] cls = "MassParser"        -> MassActivator
    [] cls = "CoordinatesParser" -> CoordinatesActivator

deactivator(cls) ==
  CASE cls = "HessianParser"     -> HessianDeactivator
    [] cls = "MassParser"        -> MassDeactivator
    [] cls = "CoordinatesParser" -> CoordinatesDeactivator

(***************************************************************************)
(* A parser instance is the record self of its attributes.  err is the     *)
(* exception that left the last call ("none" when it returned).  Two       *)
(* fields record what the instance did since reset(): parsed, the stream   *)
(* positions of the lines LinkParser.parse passed to MultiLineParser.parse,*)
(* and calls, the calls MultiLineParser.parse made on the collector, each  *)
(* [op, pos, line, in_link, collecting] with the flags as they were when   *)
(* the call was made.                                                      *)
(***************************************************************************)
List(vals) == [array |-> FALSE, vals |-> vals]

Array(vals) == [array |-> TRUE, vals |-> vals]

Raise(s, exc) == [s EXCEPT !.err = exc]

\* MultiLineParser.reset: the window is closed.
MultiLineParser_reset(s) ==
  [s EXCEPT !.active = FALSE, !.err = "none", !.parsed = <<>>, !.calls = <<>>]

LinkParser_reset(s) == [MultiLineParser_reset(s) EXCEPT !.in_link = FALSE]

HessianParser_reset(s) == [LinkParser_reset(s) EXCEPT !.hessian = List(<<>>)]

FrequenciesParser_reset(s) == [LinkParser_reset(s) EXCEPT !.frequencies = <<>>]

MassParser_reset(s) == [LinkParser_reset(s) EXCEPT !.masses = List(<<>>)]

CoordinatesParser_reset(s) == [LinkParser_reset(s) EXCEPT !.coordinates = <<>>]

EnergyParser_reset(s) == [LinkParser_reset(s) EXCEPT !.energies = <<>>]

reset(s) ==
  CASE s.cls = "HessianParser"     -> HessianParser_reset(s)
    [] s.cls = "MassParser"        -> MassParser_reset(s)
    [] s.cls = "CoordinatesParser" -> CoordinatesParser_reset(s)
    [] s.cls = "EnergyParser"      -> EnergyParser_reset(s)
    [] s.cls \in {"LowFrequenciesParser", "SelectedFrequenciesParser"}
                                   -> FrequenciesParser_reset(s)
    [] OTHER                       -> LinkParser_reset(s)

\* The instance as the constructor and the first reset() leave it.  An
\* attribute that reset() does not set (current_coordinates, and the
\* accumulators of the other classes) does not exist yet: set |-> FALSE.
New(cls, link) ==
  reset([cls |-> cls, link |-> link, condition |-> "None",
         in_link |-> FALSE, active |-> FALSE,
         energies |-> <<>>, frequencies |-> <<>>, hessian |-> List(<<>>),
         masses |-> List(<<>>), coordinates |-> <<>>,
         current_coordinates |-> [set |-> FALSE, vals |-> <<>>],
         err |-> "none", parsed |-> <<>>, calls |-> <<>>])

RECURSIVE AppendFloats(_, _, _)
\* acc with float(w) appended for each word w in order, up to the first word
\* float() rejects: [vals, ok].
AppendFloats(acc, words, i) ==
  IF i > Len(words) THEN [vals |-> acc, ok |-> TRUE]
  ELSE LET f == float(words[i])
       IN IF f.ok THEN AppendFloats(Append(acc, f.v), words, i + 1)
          ELSE [vals |-> acc, ok |-> FALSE]

HessianParser_start_collecting(s) == [s EXCEPT !.hessian = List(<<>>)]

\* HessianParser.collect, lines 72-82.
HessianParser_collect(s, line) ==
  LET words == split(line)
  IN IF Len(words) < 2 THEN Raise(s, "IndexError")
     ELSE IF ~find_ge0(words[2], "D") THEN s
     ELSE LET row_number == int(words[1])
              len == Len(s.hessian.vals)
          IN IF ~row_number.ok THEN Raise(s, "ValueError")
             ELSE IF s.hessian.array THEN Raise(s, "AttributeError")
             ELSE LET fresh == row_number.v >= len
                      idx   == row_number.v - 1
                      at    == IF fresh THEN len + 1
                               ELSE IF idx >= 0 THEN idx + 1 ELSE len + idx + 1
                      rows  == IF fresh THEN Append(s.hessian.vals, <<>>) ELSE s.hessian.vals
                  IN IF at < 1 THEN Raise(s, "IndexError")
                     ELSE LET got == AppendFloats(rows[at],
                                       [i \in 1..(Len(words) - 1) |->
                                          replace(words[i + 1], "D", "e")], 1)
                              s1  == [s EXCEPT !.hessian = List([rows EXCEPT ![at] = got.vals])]
                          IN IF got.ok THEN s1 ELSE Raise(s1, "ValueError")

RECURSIVE Cells(_, _)
\* The (row_index, col_index, value) triples in the order the two loops of
\* stop_collecting visit them, from row i on (indices from 1).
Cells(rows, i) ==
  IF i > Len(rows) THEN <<>>
  ELSE [j \in 1..Len(rows[i]) |-> <<i, j, rows[i][j]>>] \o Cells(rows, i + 1)

RECURSIVE Fill(_, _, _)
\* The array after the assignments of cells k, k+1, ... in order.
Fill(arr, cells, k) ==
  IF k > Len(cells) THEN arr
  ELSE LET r == cells[k][1]
           c == cells[k][2]
           v == cells[k][3]
           a1 == [arr EXCEPT ![r][c] = v]
           a2 == IF r # c THEN [a1 EXCEPT ![c][r] = v] ELSE a1
       IN Fill(a2, cells, k + 1)

\* HessianParser.stop_collecting, lines 84-91: an index outside the N x N
\* array raises IndexError before self.hessian is replaced.
HessianParser_stop_collecting(s) ==
  LET rows  == s.hessian.vals
      N     == Len(rows)
      zeros == [i \in 1..N |-> [j \in 1..N |-> Zero]]
      cells == Cells(rows, 1)
  IN IF \E k \in 1..Len(cells) : cells[k][2] > N
     THEN Raise(s, "IndexError")
     ELSE [s EXCEPT !.hessian = Array(Fill(zeros, cells, 1))]

HessianParser_result(s) == s.hessian

\* FrequenciesParser.collect, lines 107-110; the list grows word by word, so
\* the values before a word float() rejects stay in it.
FrequenciesParser_collect(s, line, pattern) ==
  IF Slice(line, 0, Len(pattern)) = pattern
  THEN LET words == split(Slice(line, Len(pattern), Len(line)))
           got   == AppendFloats(s.frequencies, words, 1)
           s1    == [s EXCEPT !.frequencies = got.vals]
       IN IF got.ok THEN s1 ELSE Raise(s1, "ValueError")
  ELSE s

FrequenciesParser_result(s) == s.frequencies

MassParser_start_collecting(s) == [s EXCEPT !.masses = List(<<>>)]

MassParser_collect(s, line) ==
  LET match == search(MassRe, line)
  IN IF ~match.ok THEN s
     ELSE LET f == float(match.g.mass)
          IN IF ~f.ok THEN Raise(s, "ValueError")
             ELSE IF s.masses.array THEN Raise(s, "AttributeError")
             ELSE [s EXCEPT !.masses = List(Append(s.masses.vals, f.v))]

MassParser_stop_collecting(s) == [s EXCEPT !.masses = Array(s.masses.vals)]

MassParser_result(s) == s.masses

\* A start_collecting that keeps the list of the episode before.
CoordinatesParser_start_collecting_keep(s) ==
  [s EXCEPT !.current_coordinates = [set |-> TRUE, vals |-> @.vals]]

CoordinatesParser_start_collecting(s) ==
  [s EXCEPT !.current_coordinates = [set |-> TRUE, vals |-> <<>>]]

CoordinatesParser_collect(s, line) ==
  LET match == search(CoordinatesRe, line)
  IN IF ~match.ok THEN s
     ELSE LET x == float(match.g.x)
              y == float(match.g.y)
              z == float(match.g.z)
          IN IF ~(x.ok /\ y.ok /\ z.ok) THEN Raise(s, "ValueError")
             ELSE IF ~s.current_coordinates.set THEN Raise(s, "AttributeError")
             ELSE [s EXCEPT !.current_coordinates.vals =
                     Append(@, <<from_angstrom(x.v), from_angstrom(y.v), from_angstrom(z.v)>>)]

CoordinatesParser_stop_collecting(s) ==
  IF ~s.current_coordinates.set THEN Raise(s, "AttributeError")
  ELSE [s EXCEPT !.coordinates = Append(@, s.current_coordinates.vals)]

CoordinatesParser_result(s) == s.coordinates

\* A collector that puts each new energy in front of the list.
EnergyParser_collect_prepend(s, line) ==
  LET match == search(EnergyRe, line)
  IN IF ~match.ok THEN s
     ELSE LET f == float(match.g.energy)
          IN IF f.ok THEN [s EXCEPT !.energies = <<f.v>> \o @]
             ELSE Raise(s, "ValueError")

EnergyParser_collect(s, line) ==
  LET match == search(EnergyRe, line)
  IN IF ~match.ok THEN s
     ELSE LET f == float(match.g.energy)
          IN IF f.ok THEN [s EXCEPT !.energies = Append(@, f.v)]
             ELSE Raise(s, "ValueError")

EnergyParser_result(s) == s.energies

\* The method each class binds to self.start_collecting, self.collect and
\* self.stop_collecting; a class that defines none inherits a method of
\* MultiLineParser that does nothing.
start_collecting(s) ==
  CASE s.cls = "HessianParser"     -> HessianParser_start_collecting(s)
    [] s.cls = "MassParser"        -> MassParser_start_collecting(s)
    [] s.cls = "CoordinatesParser" -> CoordinatesParser_start_collecting(s)
    [] OTHER                       -> s

collect(s, line) ==
  CASE s.cls = "HessianParser"     -> HessianParser_collect(s, line)
    [] s.cls = "MassParser"        -> MassParser_collect(s, line)
    [] s.cls = "CoordinatesParser" -> CoordinatesParser_collect(s, line)
    [] s.cls = "EnergyParser"      -> EnergyParser_collect(s, line)
    [] s.cls = "LowFrequenciesParser"
         -> FrequenciesParser_collect(s, line, LowFrequenciesPattern)
    [] s.cls = "SelectedFrequenciesParser"
         -> FrequenciesParser_collect(s, line, SelectedFrequenciesPattern)
    [] OTHER                       -> s

stop_collecting(s) ==
  CASE s.cls = "HessianParser"     -> HessianParser_stop_collecting(s)
    [] s.cls = "MassParser"        -> MassParser_stop_collecting(s)
    [] s.cls = "CoordinatesParser" -> CoordinatesParser_stop_collecting(s)
    [] OTHER                       -> s

result(s) ==
  CASE s.cls = "HessianParser"     -> HessianParser_result(s).vals
    [] s.cls = "MassParser"        -> MassParser_result(s).vals
    [] s.cls = "CoordinatesParser" -> CoordinatesParser_result(s)
    [] s.cls = "EnergyParser"      -> EnergyParser_result(s)
    [] OTHER                       -> FrequenciesParser_result(s)

Called(s, op, l, pos) ==
  [s EXCEPT !.calls = Append(@, [op |-> op, pos |-> pos, line |-> l,
                                  in_link |-> s.in_link,
                                  collecting |-> ~HasActivator(s.cls) \/ s.active])]

\* The window after start_collecting or stop_collecting returned: the flag is
\* set only when the call raised nothing.
Window(s, open) == IF s.err = "none" THEN [s EXCEPT !.active = open] ELSE s

\* MultiLineParser.parse: the activation window.  Without an activator every
\* line is collected.  With one, a line matching the deactivator while
\* collecting calls stop_collecting and closes the window, any other line while
\* collecting is collected, and a line matching the activator while not
\* collecting calls start_collecting and opens the window.
\* The condition holds: there is none, or it says yes.
Gate(s) == s.condition # "never"

\* The gating predicate (the condition argument) suppresses the window for
\* the whole pass when it says no.
MultiLineParser_parse(s, l, pos) ==
  IF ~Gate(s) THEN s
  ELSE IF ~HasActivator(s.cls) \/ (s.active /\ ~search(deactivator(s.cls), Text(l)).ok)
  THEN collect(Called(s, "collect", l, pos), Text(l))
  ELSE IF s.active
  THEN Window(stop_collecting(Called(s, "stop_collecting", l, pos)), FALSE)
  ELSE IF search(activator(s.cls), Text(l)).ok
  THEN Window(start_collecting(Called(s, "start_collecting", l, pos)), TRUE)
  ELSE s

LeavePrefix == <<" ","L","e","a","v","e"," ","L","i","n","k">>

EnterPrefix == <<" ","(","E","n","t","e","r"," ">>

\* The condition of line 43.
IsLeave(line, link) ==
  Slice(line, 0, 11) = LeavePrefix /\ Slice(line, 13, 13 + Len(link)) = link

\* The condition of line 47.
IsEnter(line, link) ==
  Slice(line, 0, 8) = EnterPrefix /\ Slice(line, -6 - Len(link), -6) = link

\* Lines 43-44: the exit marker of the own link closes the section.
LinkParser_leave(s, line) ==
  IF IsLeave(line, s.link) THEN [s EXCEPT !.in_link = FALSE] ELSE s

\* A parse that passes every line on, whatever in_link is.
LinkParser_forward_always(s, l, pos) ==
  MultiLineParser_parse([s EXCEPT !.parsed = Append(@, pos)], l, pos)

\* A parse that hands the line to collect itself, past MultiLineParser.parse.
LinkParser_forward_direct(s, l, pos) ==
  IF s.in_link
  THEN collect(Called([s EXCEPT !.parsed = Append(@, pos)], "collect", l, pos), Text(l))
  ELSE s

\* Lines 45-46: inside the section the line goes to MultiLineParser.parse.
LinkParser_forward(s, l, pos) ==
  IF s.in_link
  THEN MultiLineParser_parse([s EXCEPT !.parsed = Append(@, pos)], l, pos)
  ELSE s

\* Lines 47-48: the entry marker of the own link opens the section; an
\* exception of the collector has left parse before.
LinkParser_enter(s, line) ==
  IF s.err = "none" /\ IsEnter(line, s.link) THEN [s EXCEPT !.in_link = TRUE] ELSE s

\* A parse that looks for the exit marker after the collection check.
LinkParser_parse_leave_last(s, l, pos) ==
  LinkParser_enter(LinkParser_leave(LinkParser_forward(s, l, pos), Text(l)), Text(l))

\* LinkParser.parse, lines 42-48.
LinkParser_parse(s, l, pos) ==
  LinkParser_enter(LinkParser_forward(LinkParser_leave(s, Text(l)), l, pos), Text(l))

(***************************************************************************)
(* The streams.  Alphabet(cls) is the set of lines the driver may feed a   *)
(* parser of class cls, in any order; HessianLog(N, W, hdr) is the part of *)
(* a log that link 716 writes for an N x N force-constant matrix printed   *)
(* in blocks of W columns (with the column headings when hdr).             *)
(***************************************************************************)
Links == {<<"1","0","1">>, <<"1","1","0","1">>}

Alphabet(cls) ==
  CASE cls = "LinkParser" ->
         {L("enter101"), L("leave101"), L("enter1101"), L("leave1101"),
          L("enter502"), L("leave502")}
    [] cls = "EnergyParser" ->
         {L("enter502"), L("leave502"), L("leave502_scf"), L("scfA"), L("scfB"),
          L("enter716")}
    [] cls = "CoordinatesParser" ->
         {L("enter202"), L("leave202"), L("input_orientation"), L("distance_matrix"),
          L("atomA"), L("coord_head")}
    [] cls = "HessianParser" ->
         {L("enter716"), L("fc_cartesian"), L("fc_internal"), L("blank"),
          Header(1, 2), Row(1, 1, 1)}
    [] cls = "MassParser" ->
         {L("enter716"), L("leave716"), L("temperature"), L("molecular_mass"),
          L("atom_mass"), L("blank")}
    [] cls = "LowFrequenciesParser" ->
         {L("enter716"), L("leave716"), L("low_freq"), L("freq"), L("red_mass")}
    [] cls = "SelectedFrequenciesParser" ->
         {L("enter716"), L("leave716"), L("low_freq"), L("freq"), L("red_mass")}

RECURSIVE BlockRows(_, _, _, _)
\* The rows r .. N of the block of columns c .. c+n-1.
BlockRows(r, N, c, n) ==
  IF r > N THEN <<>>
  ELSE <<Row(r, c, Min(n, r - c + 1))>> \o BlockRows(r + 1, N, c, n)

RECURSIVE Blocks(_, _, _, _)
Blocks(N, W, hdr, c) ==
  IF c > N THEN <<>>
  ELSE LET n == Min(W, N - c + 1)
       IN (IF hdr THEN <<Header(c, n)>> ELSE <<>>)
            \o BlockRows(c, N, c, n) \o Blocks(N, W, hdr, c + W)

HessianLog(N, W, hdr) ==
  <<L("enter716"), L("fc_cartesian")>> \o Blocks(N, W, hdr, 1)
    \o <<L("fc_internal"), L("leave716")>>

HessianLogs == {HessianLog(N, W, hdr) : N \in 1..MaxN, W \in 1..MaxW, hdr \in BOOLEAN}

(***************************************************************************)
(* The driver.  fed is the stream fed since the last reset, inl the value  *)
(* of in_link after each of its lines; file is the log being read (empty   *)
(* when the driver feeds lines in any order); others holds the parsers     *)
(* registered on the stream beside self (none unless stated).              *)
(***************************************************************************)
Init ==
  /\ self \in {New(cls, link_of(cls)) : cls \in Classes}
  /\ fed = <<>>
  /\ inl = <<>>
  /\ file = <<>>
  /\ others = <<>>

InitLink ==
  /\ self \in {New("LinkParser", link) : link \in Links}
  /\ fed = <<>>
  /\ inl = <<>>
  /\ file = <<>>
  /\ others = <<>>

InitFile ==
  /\ self = New("HessianParser", link_of("HessianParser"))
  /\ fed = <<>>
  /\ inl = <<>>
  /\ file \in HessianLogs
  /\ others = <<>>

\* The driver hands one line to parse(); an exception ends the pass.
Parse(l) ==
  /\ self.err = "none"
  /\ self' = LinkParser_parse(self, l, Len(fed) + 1)
  /\ fed' = Append(fed, l)
  /\ inl' = Append(inl, self'.in_link)
  /\ UNCHANGED <<file, others>>

Feed ==
  /\ Len(fed) < MaxLines
  /\ \E l \in Alphabet(self.cls) : Parse(l)

FeedFile ==
  /\ Len(fed) < Len(file)
  /\ Parse(file[Len(fed) + 1])

\* reset() before a new pass.
Reset ==
  /\ fed # <<>>
  /\ self' = reset(self)
  /\ fed' = <<>>
  /\ inl' = <<>>
  /\ UNCHANGED <<file, others>>

Next == Feed \/ Reset

NextFile == FeedFile \/ Reset

Spec == Init /\ [][Next]_vars

SpecLink == InitLink /\ [][Next]_vars

SpecFile == InitFile /\ [][NextFile]_vars

(***************************************************************************)
(* What the log says, independently of the parsers: which lines mark a     *)
(* boundary of a link, which lie inside a section of it, and what the      *)
(* lines of each kind report.                                              *)
(***************************************************************************)
MarksEnter(l, link) == Meta(l).kind = "enter" /\ Meta(l).id = link

MarksLeave(l, link) == Meta(l).kind = "leave" /\ Meta(l).id = link

\* Line p lies inside a section of the link: after an entry marker of the
\* link, with no exit marker of it since (line p included).
Inside(p, link) ==
  \E q \in 1..(p - 1) :
    /\ MarksEnter(fed[q], link)
    /\ \A r \in (q + 1)..p : ~MarksLeave(fed[r], link)

\* The role of the lines that open and close the window of a class, and of
\* the lines that carry its data.
ActivatorRole(cls) ==
  CASE cls = "HessianParser"     -> "fc_cartesian"
    [] cls = "MassParser"        -> "temperature"
    [] cls = "CoordinatesParser" -> "input_orientation"
    [] OTHER                     -> "no activator"

DeactivatorRole(cls) ==
  CASE cls = "HessianParser"     -> "fc_internal"
    [] cls = "MassParser"        -> "molecular_mass"
    [] cls = "CoordinatesParser" -> "distance_matrix"
    [] OTHER                     -> "no deactivator"

DataRole(cls) ==
  CASE cls = "HessianParser"             -> "fc_row"
    [] cls = "MassParser"                -> "atom_mass"
    [] cls = "CoordinatesParser"         -> "atom"
    [] cls = "EnergyParser"              -> "scf"
    [] cls = "LowFrequenciesParser"      -> "low_freq"
    [] cls = "SelectedFrequenciesParser" -> "freq"
    [] OTHER                             -> "no data"

\* The positions of the lines passed on to MultiLineParser.parse, and of the
\* lines given to collect.
ParsedAt == {self.parsed[k] : k \in 1..Len(self.parsed)}

CallsAt(op) == {self.calls[k].pos : k \in {i \in 1..Len(self.calls) : self.calls[i].op = op}}

\* in_link when line p arrived.
InLinkBefore(p) == p > 1 /\ inl[p - 1]

\* The calls made for the lines a .. b, in order, as <<op, pos>>.
CallsBetween(a, b) ==
  LET sel == SelectSeq(self.calls, LAMBDA c : c.pos >= a /\ c.pos <= b)
  IN [k \in 1..Len(sel) |-> <<sel[k].op, sel[k].pos>>]

\* The window was open when line p arrived: a start_collecting before p with
\* no stop_collecting after it.
WindowOpenBefore(p) ==
  \E k \in 1..Len(self.calls) :
    /\ self.calls[k].op = "start_collecting"
    /\ self.calls[k].pos < p
    /\ \A j \in (k + 1)..Len(self.calls) :
         self.calls[j].pos < p => self.calls[j].op # "stop_collecting"

(***************************************************************************)
(* C1.  A line reaches the collector only while in_link is true and the    *)
(* window is collecting: every collect call was made with both flags true, *)
(* and every line passed on by LinkParser.parse comes after a line the     *)
(* parser takes for an entry marker of its link, with no line it takes for *)
(* an exit marker since.  So no line before the first entry marker, or     *)
(* between an exit marker and the next entry marker, is collected.         *)
(***************************************************************************)
OpenedBefore(p) ==
  \E q \in 1..(p - 1) :
    /\ IsEnter(Text(fed[q]), self.link)
    /\ \A r \in (q + 1)..p : ~IsLeave(Text(fed[r]), self.link)

C1_CollectOnlyInsideOpenWindow ==
  /\ \A k \in 1..Len(self.calls) :
       self.calls[k].op = "collect" =>
         /\ self.calls[k].in_link
         /\ self.calls[k].collecting
         /\ self.calls[k].pos \in ParsedAt
  /\ \A p \in ParsedAt : OpenedBefore(p)

\* An energy line before the first entry marker and one after an exit marker
\* were not passed on, while a line inside the section was collected.
C1_Witness ==
  /\ self.cls = "EnergyParser"
  /\ \E p, q, r \in 1..Len(fed) :
       /\ p < q /\ q < r
       /\ Meta(fed[p]).role = "scf" /\ p \notin ParsedAt
       /\ q \in CallsAt("collect")
       /\ Meta(fed[r]).role = "scf" /\ Meta(fed[r]).kind = "none" /\ r \notin ParsedAt

(***************************************************************************)
(* C2.  A line that is the exit marker of the parser's own link (prefix    *)
(* " Leave Link", the link at column 13) is never passed on to the         *)
(* collector, and in_link is false after it, even when the section was     *)
(* open and the text of the line matches the collector's pattern.          *)
(***************************************************************************)
C2_ExitMarkerNeverForwarded ==
  \A p \in 1..Len(fed) :
    IsLeave(Text(fed[p]), self.link) =>
      /\ p \notin ParsedAt
      /\ p \notin CallsAt("collect")
      /\ ~inl[p]

\* An exit marker that also reads as an energy line arrived in an open
\* section of an EnergyParser and was not collected.
C2_Witness ==
  /\ self.cls = "EnergyParser"
  /\ \E p \in 1..Len(fed) :
       /\ IsLeave(Text(fed[p]), self.link)
       /\ Meta(fed[p]).role = "scf"
       /\ InLinkBefore(p)
       /\ p \notin ParsedAt
       /\ self.energies = <<>>

(***************************************************************************)
(* C3.  A line that is the entry marker of the parser's own link (prefix   *)
(* " (Enter ", the link ending 6 characters before the end of the line) is *)
(* never passed on to the collector.                                       *)
(***************************************************************************)
C3_EntryMarkerNeverForwarded ==
  \A p \in 1..Len(fed) :
    IsEnter(Text(fed[p]), self.link) => p \notin ParsedAt

(***************************************************************************)
(* C4.  A marker line that names another link than the parser's own never  *)
(* changes in_link.                                                        *)
(***************************************************************************)
C4_OtherLinkMarkersInvisible ==
  \A p \in 1..Len(fed) :
    (Meta(fed[p]).kind # "none" /\ Meta(fed[p]).id # self.link) =>
      inl[p] = InLinkBefore(p)

(***************************************************************************)
(* C5.  An EnergyParser returns exactly the energies of the "SCF Done"     *)
(* lines that lie inside the sections of link 502, in the order of the     *)
(* log, once each, and no energy of a line outside them.                   *)
(***************************************************************************)
RECURSIVE EnergiesInside(_)
\* The energies the lines 1 .. p report inside sections of link 502.
EnergiesInside(p) ==
  IF p = 0 THEN <<>>
  ELSE EnergiesInside(p - 1)
         \o (IF Meta(fed[p]).role = "scf" /\ Inside(p, link_of("EnergyParser"))
             THEN Meta(fed[p]).vals ELSE <<>>)

C5_EnergiesOfTheSections ==
  self.cls = "EnergyParser" =>
    /\ self.err = "none"
    /\ EnergyParser_result(self) = EnergiesInside(Len(fed))

\* Two sections, one energy in each, and the result holds both in order.
C5_Witness ==
  /\ self.cls = "EnergyParser"
  /\ EnergyParser_result(self) = << <<-1234567, -6>>, <<-13, -1>> >>
  /\ \E p, q, r \in 1..Len(fed) :
       /\ p < q /\ q < r
       /\ Meta(fed[p]).role = "scf" /\ Inside(p, self.link)
       /\ MarksLeave(fed[q], self.link)
       /\ Meta(fed[r]).role = "scf" /\ Inside(r, self.link)

(***************************************************************************)
(* C6.  For a parser with an activator the window is closed at every       *)
(* section entry: a line is collected only if an activator line came       *)
(* between the entry marker that opened the section and that line.         *)
(***************************************************************************)
\* Line q opened a section: an entry marker arriving while in_link was false.
Opens(q) == MarksEnter(fed[q], self.link) /\ ~InLinkBefore(q)

C6_WindowClosedAtSectionEntry ==
  HasActivator(self.cls) =>
    \A p \in CallsAt("collect") :
      \E a \in 1..(p - 1) :
        /\ Meta(fed[a]).role = ActivatorRole(self.cls)
        /\ \A q \in a..(p - 1) : ~Opens(q)

(***************************************************************************)
(* C7.  In an open section with the window closed, an activator line, then *)
(* K lines that are neither boundary markers nor activator nor             *)
(* deactivator, then a deactivator line make exactly one start_collecting  *)
(* (at the activator line), K calls of collect (one per data line, in      *)
(* order) and one stop_collecting (at the deactivator line).               *)
(***************************************************************************)
Episode(a, b) ==
  /\ a < b
  /\ InLinkBefore(a)
  /\ ~WindowOpenBefore(a)
  /\ Meta(fed[a]).role = ActivatorRole(self.cls)
  /\ Meta(fed[b]).role = DeactivatorRole(self.cls)
  /\ \A p \in (a + 1)..(b - 1) :
       /\ Meta(fed[p]).kind = "none"
       /\ Meta(fed[p]).role \notin {ActivatorRole(self.cls), DeactivatorRole(self.cls)}

C7_EpisodeCalls ==
  HasActivator(self.cls) =>
    \A a, b \in 1..Len(fed) :
      Episode(a, b) =>
        CallsBetween(a, b) =
          <<<<"start_collecting", a>>>>
            \o [k \in 1..(b - a - 1) |-> <<"collect", a + k>>]
            \o <<<<"stop_collecting", b>>>>

\* A CoordinatesParser saw an episode of two data lines.
C7_Witness ==
  /\ self.cls = "CoordinatesParser"
  /\ \E a, b \in 1..Len(fed) : Episode(a, b) /\ b = a + 3
  /\ Len(self.coordinates) = 1

(***************************************************************************)
(* C8.  After collect for every line of a printed force-constant matrix    *)
(* and stop_collecting without error, the result is symmetric and its      *)
(* diagonal entry (i, i) is the value printed for row i, column i.         *)
(***************************************************************************)
\* The dimension of the matrix the log prints: its largest row number.
RECURSIVE FileN(_)
FileN(f) ==
  IF f = <<>> THEN 0 ELSE Max(f[Len(f)].r, FileN(SubSeq(f, 1, Len(f) - 1)))

\* The deactivator line of the log has been parsed without error.
Finalized == file # <<>> /\ Len(fed) >= Len(file) - 1 /\ self.err = "none"

Symmetric(m) ==
  \A i, j \in 1..Len(m) : Len(m[i]) = Len(m) /\ m[i][j] = m[j][i]

C8_SymmetricWithParsedDiagonal ==
  Finalized =>
    /\ HessianParser_result(self).array
    /\ Symmetric(HessianParser_result(self).vals)
    /\ \A i \in 1..FileN(file) :
         /\ i <= Len(HessianParser_result(self).vals)
         /\ HessianParser_result(self).vals[i][i] = FC(i, i)

(***************************************************************************)
(* C9.  A line for a row already seen appends to that row, the last row    *)
(* included: after the lines of an N x N matrix the stored list has N      *)
(* rows, row r holding the values of columns 1 .. r in order, and          *)
(* stop_collecting makes an N x N array of it.                             *)
(***************************************************************************)
\* Every line of the matrix has been collected, the deactivator not yet.
AllRowsCollected == file # <<>> /\ Len(fed) = Len(file) - 2 /\ self.err = "none"

C9_RowsContinue ==
  /\ AllRowsCollected =>
       self.hessian = List([r \in 1..FileN(file) |-> [c \in 1..r |-> FC(r, c)]])
  /\ Finalized =>
       /\ self.hessian.array
       /\ Len(self.hessian.vals) = FileN(file)

(***************************************************************************)
(* C10.  A line given to collect that does not have the shape of the       *)
(* class's data lines leaves the accumulators unchanged and raises no      *)
(* error.                                                                  *)
(***************************************************************************)
Accumulators(s) ==
  <<s.energies, s.frequencies, s.hessian, s.masses, s.coordinates,
    s.current_coordinates>>

C10_OtherLinesIgnored ==
  [][(/\ Len(fed') = Len(fed) + 1
      /\ Len(fed') \in {self'.calls[k].pos :
                          k \in {i \in 1..Len(self'.calls) : self'.calls[i].op = "collect"}}
      /\ Meta(fed'[Len(fed')]).role # DataRole(self.cls))
     => (self'.err = "none" /\ Accumulators(self') = Accumulators(self))]_vars


(***************************************************************************)
(* C11.  When the stream ends while an episode is open (activator seen,    *)
(* data lines collected, no deactivator), result() holds the partial       *)
(* episode: for a CoordinatesParser an array of the triples collected so   *)
(* far as its last entry, for a HessianParser a finalized square matrix.   *)
(* The stream may end after any line, so this is stated of every state.    *)
(***************************************************************************)
\* An episode is open and its last line was collected.
OpenEpisode ==
  /\ HasActivator(self.cls)
  /\ self.err = "none"
  /\ self.active
  /\ self.calls # <<>>
  /\ self.calls[Len(self.calls)].op = "collect"
  /\ Meta(fed[Len(fed)]).role = DataRole(self.cls)

C11_OpenEpisodeInResult ==
  OpenEpisode =>
    /\ self.cls = "CoordinatesParser" =>
         /\ CoordinatesParser_result(self) # <<>>
         /\ CoordinatesParser_result(self)[Len(CoordinatesParser_result(self))]
              = self.current_coordinates.vals
    /\ self.cls = "HessianParser" =>
         /\ HessianParser_result(self).array
         /\ Symmetric(HessianParser_result(self).vals)

(***************************************************************************)
(* C12.  For HessianParser, MassParser and CoordinatesParser the data of   *)
(* the first completed episode of a pass is still in result() at every     *)
(* later point of the pass: start_collecting, collect and stop_collecting  *)
(* of a later episode do not destroy it.                                   *)
(***************************************************************************)
Least(S) == CHOOSE x \in S : \A y \in S : x <= y

\* The data lines collected in the first completed episode.
FirstEpisodeLines ==
  {p \in CallsAt("collect") :
     /\ Least(CallsAt("start_collecting")) < p
     /\ p < Least(CallsAt("stop_collecting"))
     /\ Meta(fed[p]).role = DataRole(self.cls)}

\* The values line p contributes to the result of its class.
Reported(p) ==
  IF self.cls = "CoordinatesParser"
  THEN {from_angstrom(Meta(fed[p]).vals[i]) : i \in 1..Len(Meta(fed[p]).vals)}
  ELSE {Meta(fed[p]).vals[i] : i \in 1..Len(Meta(fed[p]).vals)}

\* The numbers in a sequence of rows.
Entries(rows) == UNION {{rows[i][j] : j \in 1..Len(rows[i])} : i \in 1..Len(rows)}

\* The numbers in result().
ResultValues ==
  CASE self.cls = "HessianParser" -> Entries(HessianParser_result(self).vals)
    [] self.cls = "MassParser" ->
         {MassParser_result(self).vals[i] : i \in 1..Len(MassParser_result(self).vals)}
    [] self.cls = "CoordinatesParser" ->
         UNION {Entries(CoordinatesParser_result(self)[e]) :
                  e \in 1..Len(CoordinatesParser_result(self))}
    [] OTHER -> {}

C12_EarlierEpisodeKept ==
  (HasActivator(self.cls) /\ CallsAt("stop_collecting") # {}) =>
    \A p \in FirstEpisodeLines : Reported(p) \subseteq ResultValues

(***************************************************************************)
(* C15.  As long as no stop_collecting has occurred since reset, the       *)
(* result of a HessianParser is the empty representation, whatever         *)
(* start_collecting and collect calls have been made.                      *)
(***************************************************************************)
C15_EmptyBeforeStop ==
  (self.cls = "HessianParser" /\ CallsAt("stop_collecting") = {}) =>
    HessianParser_result(self).vals = <<>>

(***************************************************************************)
(* C17.  in_link after a line is true exactly when the last boundary       *)
(* marker of the parser's own link so far was an entry marker; a line that *)
(* is no boundary marker of the own link leaves in_link as it was, and no  *)
(* line is taken both for an entry and for an exit marker.                 *)
(***************************************************************************)
\* The boundary markers of the own link among the lines 1 .. p.
OwnMarkers(p) ==
  {q \in 1..p : Meta(fed[q]).kind # "none" /\ Meta(fed[q]).id = self.link}

Greatest(S) == CHOOSE x \in S : \A y \in S : y <= x

C17_InLinkIsLastOwnMarker ==
  \A p \in 1..Len(fed) :
    /\ inl[p] = (/\ OwnMarkers(p) # {}
                 /\ Meta(fed[Greatest(OwnMarkers(p))]).kind = "enter")
    /\ p \notin OwnMarkers(p) => inl[p] = InLinkBefore(p)
    /\ ~(IsEnter(Text(fed[p]), self.link) /\ IsLeave(Text(fed[p]), self.link))

(***************************************************************************)
(* A pass with the gating predicate saying no: the parsers of the concrete *)
(* classes are constructed with a condition that never holds.              *)
(***************************************************************************)
InitGated ==
  /\ self \in {[New(cls, link_of(cls)) EXCEPT !.condition = "never"] : cls \in Classes}
  /\ fed = <<>>
  /\ inl = <<>>
  /\ file = <<>>
  /\ others = <<>>

SpecGated == InitGated /\ [][Next]_vars

(***************************************************************************)
(* C13.  With the condition set to "never" no stream makes the parser call *)
(* start_collecting or collect, and result() is empty.                     *)
(***************************************************************************)
\* result() holds no value.
ResultEmpty == result(self) = <<>>

C13_GatedCollectsNothing ==
  self.condition = "never" =>
    /\ CallsAt("start_collecting") = {}
    /\ CallsAt("collect") = {}
    /\ self.err = "none"
    /\ ResultEmpty

\* A gated CoordinatesParser was fed a whole section: entry marker,
\* activator, an atom line, deactivator, exit marker.
C13_Witness ==
  /\ self.cls = "CoordinatesParser"
  /\ self.condition = "never"
  /\ Len(fed) = 5
  /\ MarksEnter(fed[1], self.link)
  /\ Meta(fed[2]).role = ActivatorRole(self.cls)
  /\ Meta(fed[3]).role = DataRole(self.cls)
  /\ Meta(fed[4]).role = DeactivatorRole(self.cls)
  /\ MarksLeave(fed[5], self.link)
  /\ self.parsed = <<2, 3, 4>>
  /\ ResultEmpty

(***************************************************************************)
(* The part of a log that link 202 writes for a run of geometry steps: one *)
(* episode per step, "Input orientation:", the heading of the table, one   *)
(* line per atom, "Distance matrix (angstroms):".  The steps lie in one    *)
(* section of the link, or in a section each.                              *)
(***************************************************************************)
MaxEpisodes == 2

MaxAtoms == 2

CoordEpisode(atoms) ==
  <<L("input_orientation"), L("coord_head")>> \o atoms \o <<L("distance_matrix")>>

RECURSIVE CoordSteps(_, _, _)
CoordSteps(eps, k, cycles) ==
  IF k > Len(eps) THEN <<>>
  ELSE (IF cycles /\ k > 1 THEN <<L("leave202"), L("enter202")>> ELSE <<>>)
         \o CoordEpisode(eps[k]) \o CoordSteps(eps, k + 1, cycles)

CoordLog(eps, cycles) == <<L("enter202")>> \o CoordSteps(eps, 1, cycles) \o <<L("leave202")>>

AtomRuns == UNION {[1..k -> {L("atomA"), L("atomB")}] : k \in 0..MaxAtoms}

CoordLogs ==
  {CoordLog(eps, cycles) :
     eps \in UNION {[1..e -> AtomRuns] : e \in 1..MaxEpisodes}, cycles \in BOOLEAN}

InitCoord ==
  /\ self = New("CoordinatesParser", link_of("CoordinatesParser"))
  /\ fed = <<>>
  /\ inl = <<>>
  /\ file \in CoordLogs
  /\ others = <<>>

SpecCoord == InitCoord /\ [][NextFile]_vars

(***************************************************************************)
(* C16.  The result of a CoordinatesParser has one entry per completed     *)
(* episode, in order, and the entry of episode e is the list of the        *)
(* triples of the atom lines collected between the start_collecting and    *)
(* the stop_collecting of episode e, in line order, each coordinate        *)
(* converted by from_angstrom.                                             *)
(***************************************************************************)
CallsOf(op) == SelectSeq(self.calls, LAMBDA c : c.op = op)

\* The atom lines collected between the lines a and b, in order.
AtomLinesBetween(a, b) ==
  SelectSeq([i \in 1..(b - a - 1) |-> a + i],
            LAMBDA p : p \in CallsAt("collect") /\ Meta(fed[p]).role = "atom")

Triple(p) == [i \in 1..3 |-> from_angstrom(Meta(fed[p]).vals[i])]

TriplesOf(ps) == [k \in 1..Len(ps) |-> Triple(ps[k])]

\* What episode e reports.
EpisodeEntry(e) ==
  TriplesOf(AtomLinesBetween(CallsOf("start_collecting")[e].pos,
                             CallsOf("stop_collecting")[e].pos))

C16_OneEntryPerEpisode ==
  self.cls = "CoordinatesParser" =>
    /\ self.err = "none"
    /\ CoordinatesParser_result(self)
         = [e \in 1..Len(CallsOf("stop_collecting")) |-> EpisodeEntry(e)]

\* Two completed episodes with different atoms: two entries, each with the
\* triples of its own episode.
C16_Witness ==
  /\ self.cls = "CoordinatesParser"
  /\ Len(CallsOf("stop_collecting")) = 2
  /\ Len(CoordinatesParser_result(self)) = 2
  /\ Meta(fed[4]).role = "atom"
  /\ CoordinatesParser_result(self)[1] = <<Triple(4)>>
  /\ Len(CoordinatesParser_result(self)[2]) = 2
  /\ CoordinatesParser_result(self)[2][1] # Triple(4)

(***************************************************************************)
(* Several parsers on one stream.  The driver hands each line to parse()   *)
(* of self and then of every parser of others, in order; an exception of   *)
(* one parse() ends the pass before the parsers after it see the line.     *)
(***************************************************************************)
MaxPairLines == 5

PairAlphabet ==
  {L("enter716"), L("leave716"), L("fc_cartesian"), L("blank"), Row(1, 1, 1),
   L("temperature"), L("atom_mass")}

\* Parser o with the window flag kept on the class, shared by all instances.
OwnState_shared(o, s) == [o EXCEPT !.active = s.active]

\* The attributes parser o finds when its turn comes after parser s ran: its
\* own, all of them being set on the instance (self.link, self.in_link, the
\* accumulators), none on the class.
OwnState(o, s) == o

InitPair ==
  /\ self = New("HessianParser", link_of("HessianParser"))
  /\ others = <<New("MassParser", link_of("MassParser"))>>
  /\ fed = <<>>
  /\ inl = <<>>
  /\ file = <<>>

\* The parsers of others after the driver's loop over them for line l, self
\* having become s1.
FeedOthers(os, s1, l, pos) ==
  [k \in 1..Len(os) |->
     IF /\ s1.err = "none"
        /\ \A j \in 1..(k - 1) : LinkParser_parse(OwnState(os[j], s1), l, pos).err = "none"
     THEN LinkParser_parse(OwnState(os[k], s1), l, pos)
     ELSE os[k]]

ParseAll(l) ==
  /\ self.err = "none"
  /\ \A k \in 1..Len(others) : others[k].err = "none"
  /\ self' = LinkParser_parse(self, l, Len(fed) + 1)
  /\ others' = FeedOthers(others, self', l, Len(fed) + 1)
  /\ fed' = Append(fed, l)
  /\ inl' = Append(inl, self'.in_link)
  /\ UNCHANGED file

FeedPair ==
  /\ Len(fed) < MaxPairLines
  /\ \E l \in PairAlphabet : ParseAll(l)

ResetPair ==
  /\ fed # <<>>
  /\ self' = reset(self)
  /\ others' = [k \in 1..Len(others) |-> reset(others[k])]
  /\ fed' = <<>>
  /\ inl' = <<>>
  /\ UNCHANGED file

NextPair == FeedPair \/ ResetPair

SpecPair == InitPair /\ [][NextPair]_vars

(***************************************************************************)
(* C14.  Every parser on a shared stream is in the state it would be in    *)
(* had it been fed alone the lines it has seen; when parse() of one parser *)
(* raised on the last line, the parsers after it are as they were before   *)
(* that line.                                                              *)
(***************************************************************************)
RECURSIVE Alone(_, _, _)
\* Parser s fed the lines i .. Len(lines) on its own.
Alone(s, lines, i) ==
  IF i > Len(lines) \/ s.err # "none" THEN s
  ELSE Alone(LinkParser_parse(s, lines[i], i), lines, i + 1)

\* The lines the k-th of the others has seen: all of fed, or all but the last
\* when a parser before it raised on the last line.
Seen(k) ==
  IF self.err # "none" \/ \E j \in 1..(k - 1) : others[j].err # "none"
  THEN SubSeq(fed, 1, Len(fed) - 1)
  ELSE fed

MaxFrames == 3

MaxCalls == 5

CPMDPayload ==
  [ A |-> <<" "," ","0",".","5"," ","-","1",".","5"," ","0",".","2","5"," ","0",".","0"," ","0",".","7","5"," ","-","0",".","5","\n">>,
    B |-> <<" "," ","1",".","0"," ","2",".","5"," ","3",".","0"," ","0",".","1"," ","0",".","2"," ","0",".","3","\n">>,
    short |-> <<" "," ","1",".","0"," ","2",".","5"," ","3",".","0","\n">> ]

CPMDLine(step, v) == <<" "," "," "," "," "," ">> \o <<DigitChar(step)>> \o CPMDPayload[v]

\* The lines of frames 1 .. F of N atoms each.
CPMDFrames(F, N, v) == [k \in 1..(F * N) |-> CPMDLine(((k - 1) \div N) + 1, v)]

\* Whole files, and files whose last frame lacks its last t lines.
CPMDFiles ==
  {SubSeq(CPMDFrames(F, N, v), 1, F * N - t) :
     F \in 0..MaxFrames, N \in 1..MaxAtoms, v \in {"A", "B", "short"}, t \in 0..(MaxAtoms - 1)}

\* __init__, lines 48-55: the number of leading lines that share the first
\* seven characters of the first line.
CountAtoms(f) ==
  Cardinality({k \in 1..Len(f) :
                 \A j \in 1..k : Slice(f[j], 0, 7) = Slice(f[1], 0, 7)})

\* __init__, lines 46-56; seek(0) puts the file back at its first line.
CPMDTrajectoryReader_init(f) ==
  [cls |-> "CPMDTrajectoryReader", num_atoms |-> CountAtoms(f), pos |-> 0,
   err |-> "none", count |-> 0, out |-> <<>>]

\* Lines 64-70 for the words of one line: the row of pos and vel, or the
\* exception of words[k] or float().
AtomRow(words) ==
  IF Len(words) < 7 THEN [err |-> "IndexError", row |-> <<>>]
  ELSE IF AppendFloats(<<>>, SubSeq(words, 2, 7), 1).ok
  THEN [err |-> "none", row |-> AppendFloats(<<>>, SubSeq(words, 2, 7), 1).vals]
  ELSE [err |-> "ValueError", row |-> <<>>]

\* self._f.next() done, the row of the line stored or its exception raised.
TakeRow(s, r) ==
  IF r.err = "none" THEN [s EXCEPT !.pos = @ + 1, !.out = Append(@, r.row)]
  ELSE [s EXCEPT !.pos = @ + 1, !.err = r.err]

RECURSIVE ReadAtoms(_, _, _)
\* The loop of _read_frame, lines 62-70, from atom i on.
ReadAtoms(s, f, i) ==
  IF i >= s.num_atoms \/ s.err # "none" THEN s
  ELSE IF s.pos >= Len(f) THEN Raise(s, "StopIteration")
  ELSE ReadAtoms(TakeRow(s, AtomRow(split(f[s.pos + 1]))), f, i + 1)

\* A call that returned is counted.
Returned(s) == IF s.err = "none" THEN [s EXCEPT !.count = @ + 1] ELSE s

\* _read_frame, lines 58-71.
CPMDTrajectoryReader_read_frame(s, f) == Returned(ReadAtoms([s EXCEPT !.out = <<>>], f, 0))

RECURSIVE SkipAtoms(_, _, _)
\* The loop of _skip_frame, lines 75-76.
SkipAtoms(s, f, i) ==
  IF i >= s.num_atoms THEN s
  ELSE IF s.pos >= Len(f) THEN Raise(s, "StopIteration")
  ELSE SkipAtoms([s EXCEPT !.pos = @ + 1], f, i + 1)

\* _skip_frame, lines 73-76.
CPMDTrajectoryReader_skip_frame(s, f) == Returned(SkipAtoms(s, f, 0))

InitCPMD ==
  /\ file \in CPMDFiles
  /\ self = CPMDTrajectoryReader_init(file)
  /\ fed = <<>>
  /\ inl = <<>>
  /\ others = <<>>

\* The iteration asks for the next frame, or skips it, until a call raises.
ReadFrame ==
  /\ self.err = "none"
  /\ self.count < MaxCalls
  /\ self' = CPMDTrajectoryReader_read_frame(self, file)
  /\ UNCHANGED <<fed, inl, file, others>>

SkipFrame ==
  /\ self.err = "none"
  /\ self.count < MaxCalls
  /\ self' = CPMDTrajectoryReader_skip_frame(self, file)
  /\ UNCHANGED <<fed, inl, file, others>>

NextCPMD == ReadFrame \/ SkipFrame

SpecCPMD == InitCPMD /\ [][NextCPMD]_vars

(***************************************************************************)
(* C18.  Every _read_frame or _skip_frame that returns has consumed        *)
(* exactly num_atoms lines, so the reader stays on a frame boundary, and   *)
(* the iteration over a finite file ends: each call that returns leaves at *)
(* least one line less to read, so no more calls return than the file has  *)
(* lines before StopIteration is raised; the empty file and the file of    *)
(* one frame included.                                                     *)
(***************************************************************************)
C18_FramesAlignedAndFinite ==
  /\ self.err = "none" => self.pos = self.count * self.num_atoms
  /\ self.count <= Len(file)

(***************************************************************************)
(* SDFReader (src/lib/io/sdf.py).  self is the reader: the position of its *)
(* file object self.f (pos, the number of lines read), the exception that  *)
(* left the last next() and the molecules the calls returned (out).  A     *)
(* line of the file is a record [name, rec, tm, whole]: the name of its    *)
(* text, the number of the record it belongs to, the kind of that record   *)
(* and whether that record is well-formed and complete.                    *)
(***************************************************************************)
MaxRecords == 3

SDFLineText ==
  [ title1  |-> <<"o","n","e","\n">>,
    title2  |-> <<" ","t","w","o"," ","\n">>,
    comment |-> <<" ","p","r","o","g","\n">>,
    blank   |-> <<"\n">>,
    counts1 |-> <<" "," ","1"," "," ","0","\n">>,
    counts2 |-> <<" "," ","2"," "," ","1","\n">>,
    atomC   |-> <<" ","0",".","0"," ","0",".","0"," ","0",".","0"," ","C","\n">>,
    atomO   |-> <<" ","1",".","5"," ","0",".","0"," ","-","0",".","5"," ","O","\n">>,
    bond    |-> <<" "," ","1"," "," ","2"," "," ","2","\n">>,
    chg     |-> <<"M"," "," ","C","H","G"," "," ","1"," "," "," ","2"," "," ","-","1","\n">>,
    mend    |-> <<"M"," "," ","E","N","D","\n">>,
    data    |-> <<">"," ","<","i","d",">","\n">>,
    dollars |-> <<"$","$","$","$","\n">> ]

SDFText(l) == SDFLineText[l.name]

\* The lines of a record of each kind; "noend" lacks its "M  END" line.
SDFRecord ==
  [ one   |-> <<"title1", "comment", "blank", "counts1", "atomC", "mend", "dollars">>,
    two   |-> <<"title2", "comment", "blank", "counts2", "atomC", "atomO", "bond",
                "chg", "mend", "data", "dollars">>,
    noend |-> <<"title1", "comment", "blank", "counts1", "atomC", "dollars">> ]

\* The molecule a well-formed record describes.
SDFMolecule ==
  [ one |-> [title |-> <<"o","n","e">>, numbers |-> <<6>>,
             coordinates |-> << <<Zero, Zero, Zero>> >>,
             pairs |-> <<>>, orders |-> <<>>, formal_charges |-> <<0>>],
    two |-> [title |-> <<"t","w","o">>, numbers |-> <<6, 8>>,
             coordinates |-> << <<Zero, Zero, Zero>>,
                                <<Mul(Norm(15, -1), angstrom), Zero,
                                  Mul(Norm(-5, -1), angstrom)>> >>,
             pairs |-> << <<0, 1>> >>, orders |-> <<2>>, formal_charges |-> <<0, -1>>] ]

\* Record number rec of kind tm, without its last cut lines.
SDFItem(tm, rec, cut) ==
  [k \in 1..(Len(SDFRecord[tm]) - cut) |->
     [name |-> SDFRecord[tm][k], rec |-> rec, tm |-> tm,
      whole |-> tm # "noend" /\ cut = 0]]

RECURSIVE SDFFile(_, _, _)
\* The records of kinds tms from the k-th on, the last without its last cut
\* lines.
SDFFile(tms, k, cut) ==
  IF k > Len(tms) THEN <<>>
  ELSE SDFItem(tms[k], k, IF k = Len(tms) THEN cut ELSE 0) \o SDFFile(tms, k + 1, cut)

SDFFiles ==
  {SDFFile(tms, 1, 0) :
     tms \in UNION {[1..e -> {"one", "two", "noend"}] : e \in 0..MaxRecords}}
  \cup
  {SDFFile(tms, 1, cut) :
     tms \in UNION {[1..e -> {"two"}] : e \in 1..MaxRecords},
     cut \in 1..(Len(SDFRecord["two"]) - 1)}

\* periodic[symbol].number, 0 standing for None.
periodic(symbol) ==
  CASE symbol = <<"C">> -> 6
    [] symbol = <<"O">> -> 8
    [] OTHER -> 0

\* str.strip()
strip(s) ==
  IF \A i \in 1..Len(s) : IsSpace(s[i]) THEN <<>>
  ELSE SubSeq(s, FirstIn(s, {s[i] : i \in {j \in 1..Len(s) : ~IsSpace(s[j])}}),
              Greatest({i \in 1..Len(s) : ~IsSpace(s[i])}))

\* The local variables of next(), with the position of the file.
SDFLocals(s) ==
  [pos |-> s.pos, err |-> "none", line |-> <<>>, title |-> <<>>,
   num_atoms |-> 0, num_bonds |-> 0, numbers |-> <<>>, coordinates |-> <<>>,
   pairs |-> <<>>, orders |-> <<>>, formal_charges |-> <<>>]

\* self.f.next(): the next line, or StopIteration at the end of the file.
SDF_readline(st, f) ==
  IF st.err # "none" THEN st
  ELSE IF st.pos >= Len(f) THEN Raise(st, "StopIteration")
  ELSE [st EXCEPT !.pos = @ + 1, !.line = SDFText(f[st.pos + 1])]

\* Lines 70-74.
SDF_title(st) ==
  IF st.err # "none" THEN st
  ELSE IF Len(st.line) = 0 THEN Raise(st, "StopIteration")
  ELSE [st EXCEPT !.title = strip(st.line)]

\* Lines 77-87 for the words of the counts line.
SDF_counts(st, words) ==
  IF st.err # "none" THEN st
  ELSE IF Len(words) < 2 THEN Raise(st, "FileFormatError")
  ELSE IF ~int(words[1]).ok \/ ~int(words[2]).ok THEN Raise(st, "FileFormatError")
  ELSE IF int(words[1]).v < 0 THEN Raise(st, "ValueError")
  ELSE [st EXCEPT !.num_atoms = int(words[1]).v, !.num_bonds = int(words[2]).v]

\* Lines 89-101 for the words of an atom line.
SDF_atom(st, words) ==
  IF st.err # "none" THEN st
  ELSE IF Len(words) < 4 THEN Raise(st, "FileFormatError")
  ELSE IF ~AppendFloats(<<>>, SubSeq(words, 1, 3), 1).ok THEN Raise(st, "FileFormatError")
  ELSE IF periodic(words[4]) = 0 THEN Raise(st, "FileFormatError")
  ELSE [st EXCEPT !.numbers = Append(@, periodic(words[4])),
                  !.coordinates = Append(@, AppendFloats(<<>>, SubSeq(words, 1, 3), 1).vals)]

SDF_readwords(st, f) == split(SDF_readline(st, f).line)

RECURSIVE SDF_atoms(_, _, _)
\* The loop of lines 88-101.
SDF_atoms(st, f, i) ==
  IF st.err # "none" \/ i >= st.num_atoms THEN st
  ELSE SDF_atoms(SDF_atom(SDF_readline(st, f), SDF_readwords(st, f)), f, i + 1)

\* Line 102: coordinates *= angstrom.
SDF_scale(st) ==
  IF st.err # "none" THEN st
  ELSE [st EXCEPT !.coordinates =
          [i \in 1..Len(@) |-> [j \in 1..3 |-> Mul(@[i][j], angstrom)]]]

\* Lines 107-114 for the words of a bond line.
SDF_bond(st, words) ==
  IF st.err # "none" THEN st
  ELSE IF Len(words) < 3 THEN Raise(st, "FileFormatError")
  ELSE IF \E k \in 1..3 : ~int(words[k]).ok THEN Raise(st, "FileFormatError")
  ELSE [st EXCEPT !.pairs = Append(@, <<int(words[1]).v - 1, int(words[2]).v - 1>>),
                  !.orders = Append(@, int(words[3]).v)]

RECURSIVE SDF_bonds(_, _, _)
\* The loop of lines 106-114; a negative num_bonds fails in numpy.zeros.
SDF_bonds(st, f, i) ==
  IF st.err # "none" THEN st
  ELSE IF st.num_bonds < 0 THEN Raise(st, "ValueError")
  ELSE IF i >= st.num_bonds THEN st
  ELSE SDF_bonds(SDF_bond(SDF_readline(st, f), SDF_readwords(st, f)), f, i + 1)

\* Line 116.
SDF_zero_charges(st) ==
  IF st.err # "none" THEN st
  ELSE [st EXCEPT !.formal_charges = [i \in 1..Len(st.numbers) |-> 0]]

RECURSIVE SDF_charges(_, _, _)
\* The loop of lines 122-128 over the words of an "M  CHG" line, i counting
\* from 0 as in the source.
SDF_charges(st, words, i) ==
  IF st.err # "none" \/ i >= Len(words) - 1 THEN st
  ELSE IF ~int(words[i + 1]).ok \/ ~int(words[i + 2]).ok THEN Raise(st, "FileFormatError")
  ELSE IF \/ int(words[i + 1]).v - 1 >= Len(st.formal_charges)
          \/ int(words[i + 1]).v - 1 < -Len(st.formal_charges)
  THEN Raise(st, "IndexError")
  ELSE SDF_charges(
         [st EXCEPT !.formal_charges[((int(words[i + 1]).v - 1) % Len(st.formal_charges)) + 1]
                      = int(words[i + 2]).v],
         words, i + 2)

\* Lines 120-128.
SDF_property(st) ==
  IF Slice(st.line, 0, 6) = <<"M"," "," ","C","H","G">>
  THEN SDF_charges(st, Slice(split(Slice(st.line, 6, Len(st.line))), 1,
                             Len(split(Slice(st.line, 6, Len(st.line))))), 0)
  ELSE st

RECURSIVE SDF_properties(_, _)
\* The loop of lines 119-129, a line having been read.
SDF_properties(st, f) ==
  IF st.err # "none" \/ st.line = <<"M"," "," ","E","N","D","\n">> THEN st
  ELSE SDF_properties(SDF_readline(SDF_property(st), f), f)

RECURSIVE SDF_to_next(_, _)
\* Lines 132-134: on to the line after "$$$$", or to the end of the file.
SDF_to_next(st, f) ==
  IF st.err # "none" \/ st.pos >= Len(f) THEN st
  ELSE IF SDFText(f[st.pos + 1]) = <<"$","$","$","$","\n">> THEN [st EXCEPT !.pos = @ + 1]
  ELSE SDF_to_next([st EXCEPT !.pos = @ + 1], f)

\* Lines 136-140, or the exception leaving next().
SDF_return(s, st) ==
  IF st.err # "none" THEN [s EXCEPT !.pos = st.pos, !.err = st.err]
  ELSE [s EXCEPT !.pos = st.pos,
                 !.out = Append(@, [title |-> st.title, numbers |-> st.numbers,
                                    coordinates |-> st.coordinates, pairs |-> st.pairs,
                                    orders |-> st.orders,
                                    formal_charges |-> st.formal_charges])]

\* Lines 70-87.
SDF_head(st, f) ==
  SDF_counts(SDF_readline(SDF_readline(SDF_readline(st, f), f), f),
             SDF_readwords(SDF_readline(SDF_readline(st, f), f), f))

\* SDFReader.next, lines 64-140.
SDFReader_next(s, f) ==
  SDF_return(s,
    SDF_to_next(
      SDF_properties(
        SDF_readline(
          SDF_zero_charges(
            SDF_bonds(
              SDF_scale(
                SDF_atoms(SDF_head(SDF_title(SDF_readline(SDFLocals(s), f)), f), f, 0)),
              f, 0)),
          f),
        f),
      f))

InitSDF ==
  /\ file \in SDFFiles
  /\ self = [cls |-> "SDFReader", pos |-> 0, err |-> "none", out |-> <<>>]
  /\ fed = <<>>
  /\ inl = <<>>
  /\ others = <<>>

\* The iteration asks for the next molecule until a call raises.
NextMolecule ==
  /\ self.err = "none"
  /\ self' = SDFReader_next(self, file)
  /\ UNCHANGED <<fed, inl, file, others>>

SpecSDF == InitSDF /\ [][NextMolecule]_vars

(***************************************************************************)
(* C19.  On a file of R well-formed records the calls of next() return the *)
(* R molecules in file order, each call leaving the file just after the    *)
(* "$$$$" line of its record, and then raise StopIteration.  StopIteration *)
(* is raised only when the file is exhausted at a record boundary: a file  *)
(* with a truncated record or a record without "M  END" never ends the     *)
(* iteration with StopIteration.                                           *)
(***************************************************************************)
\* The number of records of the file, and whether all are well-formed.
SDFRecords == IF file = <<>> THEN 0 ELSE file[Len(file)].rec

SDFWellFormed == \A i \in 1..Len(file) : file[i].whole

\* The number of the last line of record k (0 for k = 0).
SDFEndOf(k) == IF k = 0 THEN 0 ELSE Greatest({i \in 1..Len(file) : file[i].rec = k})

\* The molecules returned are those of the first records and the file is
\* just after the last of them.
SDFReturnedInOrder ==
  /\ Len(self.out) <= SDFRecords
  /\ self.out = [k \in 1..Len(self.out) |-> SDFMolecule[file[SDFEndOf(k)].tm]]
  /\ self.pos = SDFEndOf(Len(self.out))

C19_MoleculesThenStopIteration ==
  /\ SDFWellFormed =>
       /\ self.err \in {"none", "StopIteration"}
       /\ SDFReturnedInOrder
       /\ self.err = "StopIteration" => Len(self.out) = SDFRecords
  /\ self.err = "StopIteration" => SDFWellFormed
====
